---------------------------- MODULE Spec2Model ----------------------------
(***************************************************************************)
(* A model of precious' orchestrator (src/src/precious.rs): one tidy or    *)
(* lint action, from Precious::run to the status it returns.  The main     *)
(* thread walks run_all_filters; the entries of one filter's invocation    *)
(* map are run by the workers of the rayon thread pool.                    *)
(*                                                                         *)
(* The path resolver (crate::basepaths) is not among the sources; it is    *)
(* modelled from section 4.1 of the specification.                         *)
(***************************************************************************)
EXTENDS Integers, Sequences, FiniteSets, TLC

\* ------------------------------------------------------------------ bounds
MaxFilters == 2
MaxJobs == 1
NumCpus == 2
MaxTreeChanges == 1
MaxResolves == 2

\* ------------------------------------------------------------ Option, Result
None == <<>>
Some(v) == <<v>>
IsSome(o) == Len(o) = 1
Unwrap(o) == o[1]

Ok(v) == <<"Ok", v>>
Err(e) == <<"Err", e>>
IsOk(r) == r[1] = "Ok"
IsErr(r) == r[1] = "Err"

\* ------------------------------------------------------------- the file tree
\* The candidate files of the project, in lexical order, and the directory
\* that immediately contains each.
FileOrder == <<"a.txt", "src/b.rs">>
DirOrder == <<".", "src">>
AllFiles == {FileOrder[i] : i \in 1..Len(FileOrder)}
DirOf(f) == IF f = "a.txt" THEN "." ELSE "src"

RECURSIVE Concat(_)
Concat(ss) == IF ss = <<>> THEN <<>> ELSE Head(ss) \o Concat(Tail(ss))

Range(s) == {s[i] : i \in 1..Len(s)}

Perms(S) ==
    {p \in [1..Cardinality(S) -> S] : \A i, j \in 1..Cardinality(S) : p[i] = p[j] => i = j}

\* ------------------------------------------------------------------- Mode
\* The four members of the clap group "operate-on" (required, and its
\* members exclude one another).
OperateOn == {"all", "git", "staged", "paths"}

\* A variant: --git is looked at before --all.
mode_and_paths_from_args_git_first(a) ==
    IF "git" \in a THEN "GitModified"
    ELSE IF "all" \in a THEN "All"
    ELSE IF "staged" \in a THEN "GitStaged"
    ELSE "FromCli"

\* a is the set of the arguments of the group that is_present finds.
mode_and_paths_from_args(a) ==
    IF "all" \in a THEN "All"
    ELSE IF "git" \in a THEN "GitModified"
    ELSE IF "staged" \in a THEN "GitStaged"
    ELSE "FromCli"

Modes == {"FromCli", "All", "GitModified", "GitStaged", "GitStagedWithStash"}
GitModes == {"GitModified", "GitStaged", "GitStagedWithStash"}

\* ------------------------------------------------------------ the resolver
\* files_to_paths: the candidate files grouped by their containing
\* directory, directories and files in lexical order, a directory with no
\* file left out; None when there is no candidate file.
GroupOf(d, t) ==
    [dir |-> d, files |-> SelectSeq(FileOrder, LAMBDA f : f \in t /\ DirOf(f) = d)]

Groups(t) ==
    SelectSeq([i \in 1..Len(DirOrder) |-> GroupOf(DirOrder[i], t)],
              LAMBDA g : g.files # <<>>)

Resolve(t) == IF t = {} THEN None ELSE Some(Groups(t))

\* BasePaths::paths(): what one call can return, given the mode and the
\* candidate files at the time of the call.  A VCS query can fail.
PathsResults(m, t) ==
    {Ok(Resolve(t))} \cup (IF m \in GitModes THEN {Err("vcs")} ELSE {})

\* ----------------------------------------------------------------- filters
RunModes == {"Root", "Dirs", "Files"}
Filter(i, rm) == [name |-> i, run_mode |-> rm]
config_key(f) == <<"commands", f.name>>

FilterLists ==
    UNION {{[i \in 1..n |-> Filter(i, rms[i])] : rms \in [1..n -> RunModes]}
           : n \in 0..MaxFilters}

\* ------------------------------------------------------------ path maps
\* A HashMap<PathBuf, Paths> is a function from its keys; inserting a key
\* again replaces the value.
Insert(m, k, v) == [x \in DOMAIN m \cup {k} |-> IF x = k THEN v ELSE m[x]]
EmptyMap == [x \in {} |-> x]

\* A variant: all is assigned each group's files instead of being appended
\* to, so that only the last group's files are left.
root_as_paths_last_group(groups) ==
    Insert(EmptyMap, ".", [dir |-> ".", files |-> groups[Len(groups)].files])

root_as_paths(groups) ==
    Insert(EmptyMap, ".",
           [dir |-> ".", files |-> Concat([i \in 1..Len(groups) |-> groups[i].files])])

\* A variant: a group that follows another is put under the first group's
\* directory, and replaces it there.
RECURSIVE dirs_from_one_key(_, _)
dirs_from_one_key(m, groups) ==
    IF groups = <<>> THEN m
    ELSE dirs_from_one_key(
             Insert(m, IF DOMAIN m = {} THEN Head(groups).dir ELSE CHOOSE k \in DOMAIN m : TRUE,
                    Head(groups)),
             Tail(groups))

RECURSIVE dirs_from(_, _)
dirs_from(m, groups) ==
    IF groups = <<>> THEN m
    ELSE dirs_from(Insert(m, Head(groups).dir, Head(groups)), Tail(groups))

dirs(groups) == dirs_from(EmptyMap, groups)

\* A variant: a file's entry holds the file alone, not its group.
RECURSIVE files_of_group_alone(_, _, _)
files_of_group_alone(m, p, fs) ==
    IF fs = <<>> THEN m
    ELSE files_of_group_alone(Insert(m, Head(fs), [dir |-> p.dir, files |-> <<Head(fs)>>]),
                              p, Tail(fs))

RECURSIVE files_of_group(_, _, _)
files_of_group(m, p, fs) ==
    IF fs = <<>> THEN m ELSE files_of_group(Insert(m, Head(fs), p), p, Tail(fs))

RECURSIVE files_from(_, _)
files_from(m, groups) ==
    IF groups = <<>> THEN m
    ELSE files_from(files_of_group(m, Head(groups), Head(groups).files), Tail(groups))

files(groups) == files_from(EmptyMap, groups)

path_map(f, groups) ==
    IF f.run_mode = "Root" THEN root_as_paths(groups)
    ELSE IF f.run_mode = "Dirs" THEN dirs(groups)
    ELSE files(groups)

\* A map builder from its call of BasePaths::paths: `?` returns the error,
\* unwrap panics on None.
build_map(f, r) ==
    IF IsErr(r) THEN r
    ELSE IF r[2] = None THEN <<"panic">>
    ELSE Ok(path_map(f, Unwrap(r[2])))

\* A larger tree for the map builders: three directories of two files.
TreeFileOrder == <<"a.txt", "b.txt", "lib/c.rs", "lib/d.rs", "src/e.rs", "src/f.rs">>
TreeDirOrder == <<".", "lib", "src">>
TreeDirOf(f) ==
    IF f \in {"a.txt", "b.txt"} THEN "."
    ELSE IF f \in {"lib/c.rs", "lib/d.rs"} THEN "lib"
    ELSE "src"

TreeGroups(t) ==
    SelectSeq([i \in 1..Len(TreeDirOrder) |->
                  [dir |-> TreeDirOrder[i],
                   files |-> SelectSeq(TreeFileOrder,
                                       LAMBDA f : f \in t /\ TreeDirOf(f) = TreeDirOrder[i])]],
              LAMBDA g : g.files # <<>>)

\* What a call of BasePaths::paths can return over the files of t.
PathsOver(t) ==
    {Err("vcs"), Ok(None)} \cup {Ok(Some(TreeGroups(x))) : x \in (SUBSET t) \ {{}}}

\* ------------------------------------------------------------- the runners
\* What Filter::tidy and Filter::lint can return for one entry.
TidyOutcomes == {"tidied", "unchanged", "na", "err"}
LintOutcomes == {"passed", "failed", "na", "err"}
Outcomes(a) == IF a = "tidying" THEN TidyOutcomes ELSE LintOutcomes

ActionError(e, f, p) == [error |-> e, config_key |-> config_key(f), path |-> p]

\* A variant: Ok(Some(false)) is taken for a failure.
TidyRunner_unchanged_is_error(f, p, o) ==
    IF o \in {"err", "unchanged"} THEN Some(ActionError("execution error", f, p)) ELSE None

\* The closure of run_one_tidier: Ok(Some(true)), Ok(Some(false)) and
\* Ok(None) give None; Err(e) gives the ActionError.
TidyRunner(f, p, o) ==
    IF o = "err" THEN Some(ActionError("execution error", f, p)) ELSE None

\* A variant: a result that is not ok is passed over like one that is.
LintRunner_failed_passes(f, p, o) ==
    IF o = "err" THEN Some(ActionError("execution error", f, p)) ELSE None

\* The closure of run_one_linter.
LintRunner(f, p, o) ==
    IF o = "failed" THEN Some(ActionError("linting failed", f, p))
    ELSE IF o = "err" THEN Some(ActionError("execution error", f, p))
    ELSE None

Runner(a, f, p, o) == IF a = "tidying" THEN TidyRunner(f, p, o) ELSE LintRunner(f, p, o)

\* The lines the closure of run_one_tidier prints with quiet = q: the line
\* of a tidied or unchanged path unless quiet, the line of an error always.
StatusLine(kind, f, p) == <<kind, f.name, p>>

TidyLines(q, f, p, o) ==
    IF o = "tidied" THEN (IF ~q THEN {StatusLine("Tidied", f, p)} ELSE {})
    ELSE IF o = "unchanged" THEN (IF ~q THEN {StatusLine("Unchanged", f, p)} ELSE {})
    ELSE IF o = "err" THEN {StatusLine("error", f, p)}
    ELSE {}

\* A variant: the line of a path that passed is printed when quiet too.
LintLines_ignores_quiet(q, f, p, o, out) ==
    IF o = "passed" THEN {StatusLine("Passed", f, p)}
    ELSE IF o = "failed" THEN {StatusLine("Failed", f, p)} \cup {StatusLine(x, f, p) : x \in out}
    ELSE IF o = "err" THEN {StatusLine("error", f, p)}
    ELSE {}

\* The lines the closure of run_one_linter prints: the line of a path that
\* passed unless quiet; the line of a path that failed, and then the tool's
\* stdout and stderr where it has them (out), always; the line of an error
\* always.
LintLines(q, f, p, o, out) ==
    IF o = "passed" THEN (IF ~q THEN {StatusLine("Passed", f, p)} ELSE {})
    ELSE IF o = "failed" THEN {StatusLine("Failed", f, p)} \cup {StatusLine(x, f, p) : x \in out}
    ELSE IF o = "err" THEN {StatusLine("error", f, p)}
    ELSE {}

Lines(a, q, f, p, o, out) ==
    IF a = "tidying" THEN TidyLines(q, f, p, o) ELSE LintLines(q, f, p, o, out)

\* The output a lint result can carry: r.stdout and r.stderr, each an Option.
ToolOutputs(o) == IF o = "failed" THEN SUBSET {"stdout", "stderr"} ELSE {{}}

\* ------------------------------------------------------------------ Exit
\* A variant: the exit for no files reports a failure.
no_files_exit_failure == [status |-> 1, message |-> Some("No files found"), error |-> None]

no_files_exit == [status |-> 0, message |-> Some("No files found"), error |-> None]

\* The report of make_exit: the header (plural for more than one error,
\* the action) and one formatted entry per error, in the errors' order.
ReportEntry(ae) == <<"bullet", ae.path, ae.config_key, ae.error>>

Report(errors, a) ==
    [plural |-> Len(errors) > 1, action |-> a,
     entries |-> [i \in 1..Len(errors) |-> ReportEntry(errors[i])]]

\* A variant: the report holds the first error only.
make_exit_first_only(errors, a) ==
    IF errors = <<>>
    THEN [status |-> 0, message |-> None, error |-> None]
    ELSE [status |-> 1, message |-> None, error |-> Some(Report(<<errors[1]>>, a))]

make_exit(errors, a) ==
    IF errors = <<>>
    THEN [status |-> 0, message |-> None, error |-> None]
    ELSE [status |-> 1, message |-> None, error |-> Some(Report(errors, a))]

\* Precious::run: the status of the Exit, or 1 for a propagated error.
RunStatus(r) == IF IsOk(r) THEN r[2].status ELSE 1

\* ------------------------------------------------------- the project root
\* The directories from the file system's root down to the project, and the
\* ancestors of a directory: itself first, then its parents.
DirChain == <<"/", "/home", "/home/proj">>
ProjectDir == "/home/proj"
Depth(d) == CHOOSE n \in 1..Len(DirChain) : DirChain[n] = d
ancestors(d) == [n \in 1..Depth(d) |-> DirChain[Depth(d) + 1 - n]]

\* cfg: the directories that hold a precious.toml; vcs: the directories that
\* hold one of the directories of vcs::dirs().
has_config_file(d, cfg) == d \in cfg
is_checkout_root(d, vcs) == d \in vcs

\* A variant: the walk starts at the parent of the current directory.
RECURSIVE first_checkout_root_above(_, _)
first_checkout_root_above(ancs, vcs) ==
    IF Len(ancs) <= 1 THEN Err("CannotFindRoot")
    ELSE IF is_checkout_root(ancs[2], vcs) THEN Ok(ancs[2])
    ELSE first_checkout_root_above(Tail(ancs), vcs)

\* The for loop of set_root over cwd.ancestors(): the first that is a
\* checkout root, or the error CannotFindRoot.
RECURSIVE first_checkout_root(_, _)
first_checkout_root(ancs, vcs) ==
    IF ancs = <<>> THEN Err("CannotFindRoot")
    ELSE IF is_checkout_root(Head(ancs), vcs) THEN Ok(Head(ancs))
    ELSE first_checkout_root(Tail(ancs), vcs)

\* A variant: a checkout root is looked for first, the config file after.
set_root_vcs_first(c, cfg, vcs) ==
    IF IsOk(first_checkout_root(ancestors(c), vcs)) THEN first_checkout_root(ancestors(c), vcs)
    ELSE IF has_config_file(c, cfg) THEN Ok(c)
    ELSE Err("CannotFindRoot")

set_root(c, cfg, vcs) ==
    IF has_config_file(c, cfg) THEN Ok(c) ELSE first_checkout_root(ancestors(c), vcs)

\* Whether a VCS command run in c finds a checkout.
HasCheckout(c, vcs) == \E n \in 1..Len(ancestors(c)) : ancestors(c)[n] \in vcs

\* BasePaths::paths() where there may be no checkout: a git-based mode
\* without one fails.
VcsResults(m, t, c, vcs) ==
    IF m \in GitModes /\ ~HasCheckout(c, vcs) THEN {Err("vcs")} ELSE PathsResults(m, t)

\* ------------------------------------------------------------ the walk
\* The files of a project as the components of their paths below the
\* project's directory, in lexical order, and the directories the tool can
\* be started in, each with its components below the project's directory.
ProjFileOrder ==
    << <<"README.md">>, <<"src", "bar.rs">>, <<"src", "main.rs">>,
       <<"tests", "data", "bar.txt">>, <<"tests", "data", "foo.txt">> >>
SrcDir == "/home/proj/src"
TestsDir == "/home/proj/tests"
StartDirs == {ProjectDir, SrcDir, TestsDir}
DirParts(d) ==
    IF d = SrcDir THEN <<"src">> ELSE IF d = TestsDir THEN <<"tests">> ELSE <<>>

\* f is below the directory of components b; its path relative to b; the
\* directory part of a path.
Under(b, f) == Len(f) > Len(b) /\ SubSeq(f, 1, Len(b)) = b
RelativeTo(b, f) == SubSeq(f, Len(b) + 1, Len(f))
Parent(f) == SubSeq(f, 1, Len(f) - 1)

RECURSIVE Distinct(_)
Distinct(ss) ==
    IF ss = <<>> THEN <<>>
    ELSE <<Head(ss)>> \o SelectSeq(Distinct(Tail(ss)), LAMBDA x : x # Head(ss))

\* The recursive walk of the directory base over the candidate files t:
\* the files below base, named relative to base, grouped by the directory
\* that holds them (the empty path is "."), None when there is none.
WalkFiles(base, t) ==
    LET below == SelectSeq(ProjFileOrder, LAMBDA f : f \in t /\ Under(DirParts(base), f))
    IN [n \in 1..Len(below) |-> RelativeTo(DirParts(base), below[n])]

WalkGroups(base, t) ==
    LET fs == WalkFiles(base, t)
        ds == Distinct([n \in 1..Len(fs) |-> Parent(fs[n])])
    IN [i \in 1..Len(ds) |->
           [dir |-> ds[i], files |-> SelectSeq(fs, LAMBDA f : Parent(f) = ds[i])]]

Walk(base, t) == IF WalkGroups(base, t) = <<>> THEN None ELSE Some(WalkGroups(base, t))

\* ------------------------------------------------------------------ state
VARIABLES
    action,       \* "tidying" or "linting": the subcommand
    args,         \* the members of the group operate-on that are present
    jobs,         \* --jobs; 0 when absent
    filters,      \* the filters the configuration gives for the action
    tree,         \* the candidate files the resolver would find now
    treeChanges,  \* how often the candidate files have changed
    basepaths,    \* Precious.basepaths: None, or the memoized BasePaths
    pc,           \* where the main thread is
    fi,           \* the index of the filter the for loop is at
    map,          \* run_parallel's map
    st,           \* per mapped filter, per entry: pending, running, done
    slot,         \* per mapped filter, per entry: what the runner returned
    calls,        \* per mapped filter, per entry: how often the runner was called
    batch,        \* per finished filter: what run_parallel returned
    all_errors,   \* run_all_filters' all_errors
    ret,          \* what run_subcommand returned
    status,       \* what run returned
    resLog,       \* what each call of BasePaths::paths returned
    smode,        \* the resolver alone: the Mode it was built with
    wt,           \* the files with unstaged changes in the working tree
    index,        \* the files staged for the commit
    stashStack,   \* git's stash: the sets of unstaged changes put aside
    spc,          \* where the resolver is in a resolution
    stashes,      \* how many stashes succeeded
    pops,         \* how many stash pops were attempted
    diffRes,      \* the result of the staged diff, held until the pop
    cwd,          \* Precious.cwd: the current directory
    cfgDirs,      \* the directories that hold a precious.toml
    vcsDirs,      \* the directories that hold a VCS directory
    root,         \* Precious.root
    paths,        \* the map builders alone: what BasePaths::paths returned
    pmap,         \* per run mode built so far: what path_map returned
    quiet,        \* Precious.quiet
    outcome,      \* per entry: what the filter returned for it
    printed       \* the lines the runners printed

vars ==
    <<action, args, jobs, filters, tree, treeChanges, basepaths, pc, fi, map,
      st, slot, calls, batch, all_errors, ret, status, resLog,
      smode, wt, index, stashStack, spc, stashes, pops, diffRes,
      cwd, cfgDirs, vcsDirs, root, paths, pmap, quiet, outcome, printed>>

stashVars == <<smode, wt, index, stashStack, spc, stashes, pops, diffRes>>

envVars == <<cwd, cfgDirs, vcsDirs, root>>
mapVars == <<paths, pmap>>
runVars == <<quiet, outcome, printed>>

inputs == <<action, args, jobs, filters>>
loopVars == <<fi, map, st, slot, calls, batch, all_errors>>

Init ==
    /\ action \in {"tidying", "linting"}
    /\ args \in {{x} : x \in OperateOn}
    /\ jobs \in 0..MaxJobs
    /\ filters \in FilterLists
    /\ tree \in SUBSET AllFiles
    /\ treeChanges = 0
    /\ basepaths = None
    /\ pc = "new"
    /\ fi = 0
    /\ map = EmptyMap
    /\ st = <<>>
    /\ slot = <<>>
    /\ calls = <<>>
    /\ batch = <<>>
    /\ all_errors = <<>>
    /\ ret = <<>>
    /\ status = None
    /\ resLog = <<>>
    /\ smode = mode_and_paths_from_args(args)
    /\ wt = {}
    /\ index = {}
    /\ stashStack = <<>>
    /\ spc = "idle"
    /\ stashes = 0
    /\ pops = 0
    /\ diffRes = None
    /\ cwd = ProjectDir
    /\ cfgDirs = {ProjectDir}
    /\ vcsDirs = {ProjectDir}
    /\ root = Some(ProjectDir)
    /\ paths = Ok(None)
    /\ pmap = EmptyMap
    /\ quiet = FALSE
    /\ outcome = EmptyMap
    /\ printed = {}

\* ThreadPoolBuilder::num_threads: 0 means one thread per processor.
PoolSize == IF jobs = 0 THEN NumCpus ELSE jobs

Running == {ik \in {<<i, k>> : i \in 1..Len(st), k \in AllFiles \cup Range(DirOrder)} :
               ik[2] \in DOMAIN st[ik[1]] /\ st[ik[1]][ik[2]] = "running"}

\* run_subcommand returns r and run returns its status.
Return(r) ==
    /\ ret' = r
    /\ status' = Some(RunStatus(r))
    /\ pc' = "done"

\* A panic unwinds run: nothing is returned.
Panic ==
    /\ ret' = <<"panic">>
    /\ status' = None
    /\ pc' = "done"

\* Precious::basepaths: the BasePaths is built on the first call only.
\* A variant: the BasePaths is given the project root, not the current
\* directory.
basepaths_get_root(bp) ==
    IF bp = None
    THEN Some([mode |-> mode_and_paths_from_args(args), base |-> Unwrap(root)])
    ELSE bp

basepaths_get(bp) ==
    IF bp = None
    THEN Some([mode |-> mode_and_paths_from_args(args), base |-> cwd])
    ELSE bp

\* A variant: the loop stops at the first filter that reported errors.
Loop_stop_on_error(i, errs) ==
    IF i <= Len(filters) /\ errs = <<>>
    THEN /\ fi' = i
         /\ pc' = "path_map"
         /\ UNCHANGED <<ret, status>>
    ELSE /\ fi' = i
         /\ Return(Ok(make_exit(errs, action)))

\* The for loop of run_all_filters at filter i with all_errors = errs: the
\* next filter, or make_exit after the last.
Loop(i, errs) ==
    IF i <= Len(filters)
    THEN /\ fi' = i
         /\ pc' = "path_map"
         /\ UNCHANGED <<ret, status>>
    ELSE /\ fi' = i
         /\ Return(Ok(make_exit(errs, action)))

\* A variant: the filter list is not checked.
NoFilters_never(fs) == FALSE

NoFilters(fs) == fs = <<>>

\* Precious::mode: the Mode of the arguments, computed anew.
mode(a) == mode_and_paths_from_args(a)

\* The first line of tidy and lint, "Tidying {mode}" or "Linting {mode}";
\* it is of no filter (0).
ModeLine(a, m) == <<IF a = "tidying" THEN "Tidying" ELSE "Linting", 0, m>>

\* run, run_subcommand, tidy or lint, and run_all_filters up to its check
\* of the filter list.
Run ==
    /\ pc = "new"
    /\ printed' = printed \cup {ModeLine(action, mode(args))}
    /\ IF NoFilters(filters)
       THEN Return(Err("NoFilters"))
       ELSE /\ pc' = "check_files"
            /\ UNCHANGED <<ret, status>>
    /\ UNCHANGED <<inputs, tree, treeChanges, basepaths, loopVars, resLog>>
    /\ UNCHANGED <<stashVars, envVars, mapVars, quiet, outcome>>

\* run_all_filters: self.basepaths()?.paths()?.is_none().
CheckFiles ==
    /\ pc = "check_files"
    /\ basepaths' = basepaths_get(basepaths)
    /\ \E r \in VcsResults(Unwrap(basepaths').mode, tree, cwd, vcsDirs) :
        /\ resLog' = Append(resLog, r)
        /\ IF IsErr(r) THEN Return(r) /\ fi' = fi
           ELSE IF r[2] = None THEN Return(Ok(no_files_exit)) /\ fi' = fi
           ELSE Loop(1, <<>>)
    /\ UNCHANGED <<inputs, tree, treeChanges, map, st, slot, calls, batch,
                   all_errors>>
    /\ UNCHANGED <<stashVars, envVars, mapVars, runVars>>

\* The candidate files change while the action runs (a tool rewrote or
\* removed files, the index changed); the next resolution sees the change.
TreeChanges ==
    /\ pc = "path_map"
    /\ treeChanges < MaxTreeChanges
    /\ treeChanges' = treeChanges + 1
    /\ \E t \in SUBSET AllFiles : t # tree /\ tree' = t
    /\ UNCHANGED <<inputs, basepaths, pc, loopVars, ret, status, resLog>>
    /\ UNCHANGED <<stashVars, envVars, mapVars, runVars>>

\* run_parallel's first statement, self.path_map(f)?: the map builder asks
\* the BasePaths for the paths and unwraps them.
PathMap ==
    /\ pc = "path_map"
    /\ basepaths' = basepaths_get(basepaths)
    /\ \E r \in VcsResults(Unwrap(basepaths').mode, tree, cwd, vcsDirs) :
        /\ resLog' = Append(resLog, r)
        /\ IF IsErr(r)
           THEN Return(r) /\ UNCHANGED <<map, st, slot, calls>>
           ELSE IF r[2] = None
           THEN Panic /\ UNCHANGED <<map, st, slot, calls>>
           ELSE /\ map' = path_map(filters[fi], Unwrap(r[2]))
                /\ st' = Append(st, [k \in DOMAIN map' |-> "pending"])
                /\ slot' = Append(slot, [k \in DOMAIN map' |-> None])
                /\ calls' = Append(calls, [k \in DOMAIN map' |-> 0])
                /\ pc' = "parallel"
                /\ UNCHANGED <<ret, status>>
    /\ UNCHANGED <<inputs, tree, treeChanges, fi, batch, all_errors>>
    /\ UNCHANGED <<stashVars, envVars, mapVars, runVars>>

\* A variant: every entry gets a thread of its own.
WorkerStart_unbounded(k) ==
    /\ pc = "parallel"
    /\ k \in DOMAIN st[fi]
    /\ st[fi][k] = "pending"
    /\ st' = [st EXCEPT ![fi][k] = "running"]
    /\ calls' = [calls EXCEPT ![fi][k] = @ + 1]
    /\ UNCHANGED <<inputs, tree, treeChanges, basepaths, pc, fi, map, slot,
                   batch, all_errors, ret, status, resLog>>
    /\ UNCHANGED <<stashVars, envVars, mapVars, runVars>>

\* A worker of the pool takes an entry of the map par_iter is over.
WorkerStart(k) ==
    /\ pc = "parallel"
    /\ k \in DOMAIN st[fi]
    /\ st[fi][k] = "pending"
    /\ Cardinality(Running) < PoolSize
    /\ st' = [st EXCEPT ![fi][k] = "running"]
    /\ calls' = [calls EXCEPT ![fi][k] = @ + 1]
    /\ UNCHANGED <<inputs, tree, treeChanges, basepaths, pc, fi, map, slot,
                   batch, all_errors, ret, status, resLog>>
    /\ UNCHANGED <<stashVars, envVars, mapVars, runVars>>

\* The tool returns and the runner's result is the entry's item.
WorkerFinish(i, k) ==
    /\ i \in 1..Len(st)
    /\ k \in DOMAIN st[i]
    /\ st[i][k] = "running"
    /\ \E o \in Outcomes(action) :
        slot' = [slot EXCEPT ![i][k] = Runner(action, filters[i], k, o)]
    /\ st' = [st EXCEPT ![i][k] = "done"]
    /\ UNCHANGED <<inputs, tree, treeChanges, basepaths, pc, fi, map, calls,
                   batch, all_errors, ret, status, resLog>>
    /\ UNCHANGED <<stashVars, envVars, mapVars, runVars>>

\* A variant: with more than one worker, workers push to one list without
\* synchronization and a push is lost.
Collect_racy(ord, sl) ==
    LET c == Concat([n \in 1..Len(ord) |->
                        IF IsSome(sl[ord[n]]) THEN <<Unwrap(sl[ord[n]])>> ELSE <<>>])
    IN IF PoolSize > 1 /\ Len(c) > 1 THEN Tail(c) ELSE c

\* A variant: every item is collected twice.
Collect_twice(ord, sl) ==
    Concat([n \in 1..Len(ord) |->
               IF IsSome(sl[ord[n]]) THEN <<Unwrap(sl[ord[n]]), Unwrap(sl[ord[n]])>> ELSE <<>>])

\* filter_map(..).collect::<Vec<ActionError>>(): the items that are Some, in
\* the order of the iteration.
Collect(ord, sl) ==
    Concat([n \in 1..Len(ord) |-> IF IsSome(sl[ord[n]]) THEN <<Unwrap(sl[ord[n]])>> ELSE <<>>])

\* A variant: install returns as soon as one entry is done.
AllDone_some(s) == \E k \in DOMAIN s : s[k] = "done"

AllDone(s) == \A k \in DOMAIN s : s[k] = "done"

\* run_parallel's result: None for no error.
ParallelResult(e) == IF e = <<>> THEN None ELSE Some(e)

\* A variant: the errors of a filter are put in front of the earlier ones.
AppendErrors_in_front(errs, b) == IF IsSome(b) THEN Unwrap(b) \o errs ELSE errs

\* all_errors.append(&mut errors) when the filter returned Some(errors).
AppendErrors(errs, b) == IF IsSome(b) THEN errs \o Unwrap(b) ELSE errs

\* install returns once every entry is done: run_parallel returns, the loop
\* appends the errors and goes on to the next filter or to make_exit.  The
\* items are collected in the order in which the HashMap is iterated, which
\* is any order of its keys.
Join ==
    /\ pc = "parallel"
    /\ AllDone(st[fi])
    /\ \E ord \in Perms(DOMAIN map) :
        LET b == ParallelResult(Collect(ord, slot[fi]))
        IN /\ batch' = Append(batch, b)
           /\ all_errors' = AppendErrors(all_errors, b)
           /\ Loop(fi + 1, all_errors')
    /\ UNCHANGED <<inputs, tree, treeChanges, basepaths, map, st, slot, calls,
                   resLog>>
    /\ UNCHANGED <<stashVars, envVars, mapVars, runVars>>

Next ==
    \/ Run
    \/ CheckFiles
    \/ TreeChanges
    \/ PathMap
    \/ \E k \in AllFiles \cup Range(DirOrder) : WorkerStart(k)
    \/ \E i \in 1..MaxFilters, k \in AllFiles \cup Range(DirOrder) : WorkerFinish(i, k)
    \/ Join

Spec == Init /\ [][Next]_vars

\* The same program when the main thread is scheduled, the pool hands every
\* pending entry to a worker when one is free, and every tool that was
\* invoked returns.  The candidate files need not change.
SpecLive ==
    /\ Init
    /\ [][Next]_vars
    /\ WF_vars(Run)
    /\ WF_vars(CheckFiles)
    /\ WF_vars(PathMap)
    /\ WF_vars(Join)
    /\ \A k \in AllFiles \cup Range(DirOrder) : WF_vars(WorkerStart(k))
    /\ \A i \in 1..MaxFilters, k \in AllFiles \cup Range(DirOrder) :
           WF_vars(WorkerFinish(i, k))


\* -------------------------------------------------- the resolver, alone
\* BasePaths built with any of the five modes and asked for the paths up to
\* MaxResolves times.  In GitStagedWithStash mode one resolution is the
\* transaction of section 4.1: (a) stash the unstaged changes, (b) compute
\* the staged diff, (c) pop the stash.
orchVars ==
    <<action, args, jobs, filters, treeChanges, basepaths, pc, fi, map, st,
      slot, calls, batch, all_errors, ret, status>>

StashInit ==
    /\ smode \in Modes
    /\ tree \in SUBSET AllFiles
    /\ wt \in SUBSET AllFiles
    /\ index \in SUBSET AllFiles
    /\ stashStack = <<>>
    /\ spc = "idle"
    /\ stashes = 0
    /\ pops = 0
    /\ diffRes = None
    /\ resLog = <<>>
    /\ action = "tidying"
    /\ args = {"paths"}
    /\ jobs = 0
    /\ filters = <<>>
    /\ treeChanges = 0
    /\ basepaths = Some([mode |-> smode, base |-> ProjectDir])
    /\ pc = "new"
    /\ fi = 0
    /\ map = EmptyMap
    /\ st = <<>>
    /\ slot = <<>>
    /\ calls = <<>>
    /\ batch = <<>>
    /\ all_errors = <<>>
    /\ ret = <<>>
    /\ status = None
    /\ cwd = ProjectDir
    /\ cfgDirs = {ProjectDir}
    /\ vcsDirs = {ProjectDir}
    /\ root = Some(ProjectDir)
    /\ paths = Ok(None)
    /\ pmap = EmptyMap
    /\ quiet = FALSE
    /\ outcome = EmptyMap
    /\ printed = {}

\* The candidate files of a mode: the walk for FromCli and All, the files
\* that differ from HEAD for GitModified, the staged files for GitStaged.
Candidates(m) ==
    IF m \in {"FromCli", "All"} THEN tree
    ELSE IF m = "GitModified" THEN wt \cup index
    ELSE index

\* One resolution in a mode without a stash.
ResolvePlain ==
    /\ spc = "idle"
    /\ smode # "GitStagedWithStash"
    /\ Len(resLog) < MaxResolves
    /\ \E r \in PathsResults(smode, Candidates(smode)) : resLog' = Append(resLog, r)
    /\ UNCHANGED <<orchVars, tree, stashVars, envVars, mapVars, runVars>>

\* (a): the unstaged changes are put on the stash and leave the working
\* tree; a stash that fails ends the resolution with its error.
StashUnstaged ==
    /\ spc = "idle"
    /\ smode = "GitStagedWithStash"
    /\ Len(resLog) < MaxResolves
    /\ \/ /\ stashStack' = <<wt>> \o stashStack
          /\ wt' = {}
          /\ stashes' = stashes + 1
          /\ spc' = "stashed"
          /\ UNCHANGED resLog
       \/ /\ resLog' = Append(resLog, Err("stash"))
          /\ UNCHANGED <<stashStack, wt, stashes, spc>>
    /\ UNCHANGED <<orchVars, tree, smode, index, pops, diffRes, envVars, mapVars, runVars>>

\* (b): the staged diff, computed as in GitStaged; its result, a failure
\* too, is held until the pop has run.
StagedDiff ==
    /\ spc = "stashed"
    /\ \E d \in PathsResults("GitStaged", Candidates("GitStaged")) : diffRes' = Some(d)
    /\ spc' = "diffed"
    /\ UNCHANGED <<orchVars, tree, resLog, smode, wt, index, stashStack, stashes, pops,
                   envVars, mapVars, runVars>>

\* A variant: a pop that fails is passed over and the resolution returns
\* what the staged diff returned.
PopStash_masks_pop_failure ==
    /\ spc = "diffed"
    /\ pops' = pops + 1
    /\ \/ /\ wt' = Head(stashStack)
          /\ stashStack' = Tail(stashStack)
       \/ UNCHANGED <<wt, stashStack>>
    /\ resLog' = Append(resLog, Unwrap(diffRes))
    /\ spc' = "idle"
    /\ diffRes' = None
    /\ UNCHANGED <<orchVars, tree, smode, index, stashes, envVars, mapVars, runVars>>

\* A variant: a failed diff returns its error at once, past the pop.
PopStash_unless_diff_failed ==
    /\ spc = "diffed"
    /\ IF IsErr(Unwrap(diffRes))
       THEN /\ resLog' = Append(resLog, Unwrap(diffRes))
            /\ UNCHANGED <<pops, wt, stashStack>>
       ELSE /\ pops' = pops + 1
            /\ \/ /\ wt' = Head(stashStack)
                  /\ stashStack' = Tail(stashStack)
                  /\ resLog' = Append(resLog, Unwrap(diffRes))
               \/ /\ resLog' = Append(resLog, Err("pop"))
                  /\ UNCHANGED <<wt, stashStack>>
    /\ spc' = "idle"
    /\ diffRes' = None
    /\ UNCHANGED <<orchVars, tree, smode, index, stashes, envVars, mapVars, runVars>>

\* (c): the pop, whatever (b) returned.  When it succeeds the unstaged
\* changes are back and the resolution returns what (b) returned; when it
\* fails the resolution returns the pop's own error.
PopStash ==
    /\ spc = "diffed"
    /\ pops' = pops + 1
    /\ \/ /\ wt' = Head(stashStack)
          /\ stashStack' = Tail(stashStack)
          /\ resLog' = Append(resLog, Unwrap(diffRes))
       \/ /\ resLog' = Append(resLog, Err("pop"))
          /\ UNCHANGED <<wt, stashStack>>
    /\ spc' = "idle"
    /\ diffRes' = None
    /\ UNCHANGED <<orchVars, tree, smode, index, stashes, envVars, mapVars, runVars>>

StashNext ==
    \/ ResolvePlain
    \/ StashUnstaged
    \/ StagedDiff
    \/ PopStash

SpecStash == StashInit /\ [][StashNext]_vars

\* ---------------------------------------------- the map builders, alone
\* One call of BasePaths::paths has returned `paths`; root_as_paths, dirs
\* and files are each applied to it, as path_map does for a filter of the
\* run mode.
MapsInit ==
    /\ paths \in PathsOver(Range(TreeFileOrder))
    /\ pmap = EmptyMap
    /\ action = "tidying"
    /\ args = {"all"}
    /\ jobs = 0
    /\ filters = <<>>
    /\ tree = {}
    /\ treeChanges = 0
    /\ basepaths = None
    /\ pc = "new"
    /\ fi = 0
    /\ map = EmptyMap
    /\ st = <<>>
    /\ slot = <<>>
    /\ calls = <<>>
    /\ batch = <<>>
    /\ all_errors = <<>>
    /\ ret = <<>>
    /\ status = None
    /\ resLog = <<>>
    /\ smode = "All"
    /\ wt = {}
    /\ index = {}
    /\ stashStack = <<>>
    /\ spc = "idle"
    /\ stashes = 0
    /\ pops = 0
    /\ diffRes = None
    /\ cwd = ProjectDir
    /\ cfgDirs = {ProjectDir}
    /\ vcsDirs = {ProjectDir}
    /\ root = Some(ProjectDir)
    /\ quiet = FALSE
    /\ outcome = EmptyMap
    /\ printed = {}

\* The groups of a Vec<Paths> after root_as_paths' loop: append(&mut
\* p.files) moves the files of every group out and leaves it empty.
Drained(groups) == [i \in DOMAIN groups |-> [groups[i] EXCEPT !.files = <<>>]]

\* A variant: the Vec the builder drains is the one the BasePaths keeps.
paths_after_shared(rm, r) ==
    IF rm = "Root" /\ IsOk(r) /\ r[2] # None
    THEN Ok(Some(Drained(Unwrap(r[2]))))
    ELSE r

\* What the BasePaths returns for the same files after the map of a filter
\* with run mode rm was built from its result r: the builder owns the
\* Option<Vec<Paths>> it was returned, what it moves out of it or consumes
\* is its own, and the local is dropped when the builder returns.
paths_after(rm, r) == r

\* One of root_as_paths, dirs and files, and the state it leaves behind.
BuildMap(rm) ==
    /\ rm \notin DOMAIN pmap
    /\ pmap' = Insert(pmap, rm, build_map(Filter(1, rm), paths))
    /\ paths' = paths_after(rm, paths)
    /\ UNCHANGED <<orchVars, tree, resLog, stashVars, envVars, runVars>>

MapsNext == \E rm \in RunModes : BuildMap(rm)

SpecMaps == MapsInit /\ [][MapsNext]_vars

\* ------------------------------------------------- one filter, observed
\* One filter of either action on the map of a resolution, from the point
\* where run_parallel has built the map to the Exit: each entry is handed to
\* the runner, what the filter returned for it and what the runner printed
\* are kept, and Join collects as it does in Spec.
RunnerFiles == {"a.txt", "b.txt", "lib/c.rs"}

RunnersInit ==
    /\ action \in {"tidying", "linting"}
    /\ quiet \in BOOLEAN
    /\ args = {"all"}
    /\ jobs = 1
    /\ filters \in {<<Filter(1, rm)>> : rm \in RunModes}
    /\ tree \in (SUBSET RunnerFiles) \ {{}}
    /\ paths = Ok(Some(TreeGroups(tree)))
    /\ resLog = <<paths, paths>>
    /\ treeChanges = 0
    /\ basepaths = Some([mode |-> "All", base |-> ProjectDir])
    /\ pc = "parallel"
    /\ fi = 1
    /\ map = path_map(filters[1], TreeGroups(tree))
    /\ st = <<[k \in DOMAIN map |-> "pending"]>>
    /\ slot = <<[k \in DOMAIN map |-> None]>>
    /\ calls = <<[k \in DOMAIN map |-> 0]>>
    /\ outcome = [k \in DOMAIN map |-> "none"]
    /\ printed = {}
    /\ batch = <<>>
    /\ all_errors = <<>>
    /\ ret = <<>>
    /\ status = None
    /\ pmap = EmptyMap
    /\ smode = "All"
    /\ wt = {}
    /\ index = {}
    /\ stashStack = <<>>
    /\ spc = "idle"
    /\ stashes = 0
    /\ pops = 0
    /\ diffRes = None
    /\ cwd = ProjectDir
    /\ cfgDirs = {ProjectDir}
    /\ vcsDirs = {ProjectDir}
    /\ root = Some(ProjectDir)

\* The runner on the entry k: the filter returns o (and, for a lint that
\* failed, the output out), the closure prints and returns its item.
Invoke(k) ==
    /\ pc = "parallel"
    /\ k \in DOMAIN st[fi]
    /\ st[fi][k] = "pending"
    /\ \E o \in Outcomes(action) : \E out \in ToolOutputs(o) :
        /\ outcome' = [outcome EXCEPT ![k] = o]
        /\ slot' = [slot EXCEPT ![fi][k] = Runner(action, filters[fi], k, o)]
        /\ printed' = printed \cup Lines(action, quiet, filters[fi], k, o, out)
    /\ st' = [st EXCEPT ![fi][k] = "done"]
    /\ calls' = [calls EXCEPT ![fi][k] = @ + 1]
    /\ UNCHANGED <<inputs, tree, treeChanges, basepaths, pc, fi, map, batch,
                   all_errors, ret, status, resLog>>
    /\ UNCHANGED <<stashVars, envVars, mapVars, quiet>>

RunnersNext ==
    \/ \E k \in Range(TreeFileOrder) \cup Range(TreeDirOrder) : Invoke(k)
    \/ Join

SpecRunners == RunnersInit /\ [][RunnersNext]_vars

\* ------------------------------------------------------ from construction
\* Precious::new in any of the directories of DirChain, with precious.toml
\* and VCS directories in any of them, and then the action as in Spec.
RootInit ==
    /\ cwd \in Range(DirChain)
    /\ cfgDirs \in SUBSET Range(DirChain)
    /\ vcsDirs \in SUBSET Range(DirChain)
    /\ root = None
    /\ action = "linting"
    /\ args \in {{x} : x \in OperateOn}
    /\ jobs = 1
    /\ filters \in {fl \in FilterLists : Len(fl) <= 1}
    /\ tree \in {{}, AllFiles}
    /\ treeChanges = 0
    /\ basepaths = None
    /\ pc = "construct"
    /\ fi = 0
    /\ map = EmptyMap
    /\ st = <<>>
    /\ slot = <<>>
    /\ calls = <<>>
    /\ batch = <<>>
    /\ all_errors = <<>>
    /\ ret = <<>>
    /\ status = None
    /\ resLog = <<>>
    /\ smode = mode_and_paths_from_args(args)
    /\ wt = {}
    /\ index = {}
    /\ stashStack = <<>>
    /\ spc = "idle"
    /\ stashes = 0
    /\ pops = 0
    /\ diffRes = None
    /\ paths = Ok(None)
    /\ pmap = EmptyMap
    /\ quiet = FALSE
    /\ outcome = EmptyMap
    /\ printed = {}

\* Precious::new: set_config calls set_root and gives up with its error;
\* with a root it loads the root's precious.toml, which has to be there.
\* When new returns an error run is never called.
New ==
    /\ pc = "construct"
    /\ LET r == set_root(cwd, cfgDirs, vcsDirs)
       IN IF IsErr(r)
          THEN /\ ret' = r
               /\ pc' = "failed"
               /\ UNCHANGED root
          ELSE /\ root' = Some(r[2])
               /\ IF has_config_file(r[2], cfgDirs)
                  THEN pc' = "new" /\ UNCHANGED ret
                  ELSE pc' = "failed" /\ ret' = Err("config")
    /\ UNCHANGED <<inputs, tree, treeChanges, basepaths, loopVars, status, resLog>>
    /\ UNCHANGED <<stashVars, cwd, cfgDirs, vcsDirs, mapVars, runVars>>

RootNext == New \/ Next

SpecRoot == RootInit /\ [][RootNext]_vars

\* ------------------------------------------------- any set of arguments
\* The action as in Spec, for every non-empty set of arguments of the group
\* that matched_subcommand can be asked about: mode_and_paths_from_args
\* tests is_present of each argument on its own.
ModeInit ==
    /\ action \in {"tidying", "linting"}
    /\ args \in (SUBSET OperateOn) \ {{}}
    /\ jobs = 1
    /\ filters \in {fl \in FilterLists : Len(fl) <= 1}
    /\ tree \in {{}, AllFiles}
    /\ treeChanges = 0
    /\ basepaths = None
    /\ pc = "new"
    /\ fi = 0
    /\ map = EmptyMap
    /\ st = <<>>
    /\ slot = <<>>
    /\ calls = <<>>
    /\ batch = <<>>
    /\ all_errors = <<>>
    /\ ret = <<>>
    /\ status = None
    /\ resLog = <<>>
    /\ smode = mode_and_paths_from_args(args)
    /\ wt = {}
    /\ index = {}
    /\ stashStack = <<>>
    /\ spc = "idle"
    /\ stashes = 0
    /\ pops = 0
    /\ diffRes = None
    /\ cwd = ProjectDir
    /\ cfgDirs = {ProjectDir}
    /\ vcsDirs = {ProjectDir}
    /\ root = Some(ProjectDir)
    /\ paths = Ok(None)
    /\ pmap = EmptyMap
    /\ quiet = FALSE
    /\ outcome = EmptyMap
    /\ printed = {}

SpecMode == ModeInit /\ [][Next]_vars

\* ------------------------------------------------------ the walk of --all
\* test_basepaths_uses_cwd in any of the directories of StartDirs: the
\* repository and precious.toml are in the project's directory, the tool
\* is run with --all, and the BasePaths of Precious::basepaths is asked for
\* the paths.
WalkInit ==
    /\ cwd \in StartDirs
    /\ tree \in SUBSET Range(ProjFileOrder)
    /\ cfgDirs = {ProjectDir}
    /\ vcsDirs = {ProjectDir}
    /\ root = Some(ProjectDir)
    /\ action = "tidying"
    /\ args = {"all"}
    /\ jobs = 0
    /\ filters = <<>>
    /\ treeChanges = 0
    /\ basepaths = None
    /\ pc = "new"
    /\ fi = 0
    /\ map = EmptyMap
    /\ st = <<>>
    /\ slot = <<>>
    /\ calls = <<>>
    /\ batch = <<>>
    /\ all_errors = <<>>
    /\ ret = <<>>
    /\ status = None
    /\ resLog = <<>>
    /\ smode = "All"
    /\ wt = {}
    /\ index = {}
    /\ stashStack = <<>>
    /\ spc = "idle"
    /\ stashes = 0
    /\ pops = 0
    /\ diffRes = None
    /\ paths = Ok(None)
    /\ pmap = EmptyMap
    /\ quiet = TRUE
    /\ outcome = EmptyMap
    /\ printed = {}

\* p.basepaths()?.paths()?: the BasePaths is built and walks the directory
\* it was given.
WalkAll ==
    /\ pc = "new"
    /\ basepaths' = basepaths_get(basepaths)
    /\ paths' = Ok(Walk(Unwrap(basepaths').base, tree))
    /\ resLog' = Append(resLog, paths')
    /\ pc' = "resolved"
    /\ UNCHANGED <<inputs, tree, treeChanges, loopVars, ret, status>>
    /\ UNCHANGED <<stashVars, envVars, pmap, runVars>>

WalkNext == WalkAll

SpecWalk == WalkInit /\ [][WalkNext]_vars

\* ---------------------------------------------------------------- claims
\* The errors the runners returned for the entries of filter i.
SlotErrors(i) ==
    {Unwrap(slot[i][k]) : k \in {x \in DOMAIN slot[i] : IsSome(slot[i][x])}}

AllSlotErrors == UNION {SlotErrors(i) : i \in 1..Len(slot)}

\* Filter i has started: one of its entries has been handed to a worker.
Started(i) == \E k \in DOMAIN st[i] : st[i][k] # "pending"

\* run_subcommand returned the Exit of make_exit.
EndedWithReport == pc = "done" /\ Len(ret) = 2 /\ ret[1] = "Ok" /\ st # <<>>

\* C1: with an empty filter list the action ends with the NoFilters error
\* and run returns 1; the paths are never asked for, no BasePaths is built
\* and no entry is invoked, whatever files there are.
C1_NoFiltersIsFatal ==
    filters = <<>> =>
        /\ resLog = <<>>
        /\ basepaths = None
        /\ st = <<>>
        /\ pc \in {"new", "done"}
        /\ pc = "done" => /\ Len(ret) = 2
                          /\ ret[1] = "Err"
                          /\ ret[2] = "NoFilters"
                          /\ status = <<1>>

C1_Witness == filters = <<>> /\ tree = {} /\ pc = "done" /\ status = <<1>>

\* C2: with at least one filter, when the first resolution finds no file
\* the action has ended with the Exit {0, "No files found", no report}, run
\* returned 0 and no entry was invoked, in every mode.
C2_NoFilesIsSuccess ==
    (filters # <<>> /\ resLog # <<>> /\ resLog[1] = <<"Ok", <<>>>>) =>
        /\ pc = "done"
        /\ ret = <<"Ok", [status |-> 0, message |-> <<"No files found">>, error |-> <<>>]>>
        /\ status = <<0>>
        /\ st = <<>>
        /\ \A i \in 1..Len(calls) : \A k \in DOMAIN calls[i] : calls[i][k] = 0

C2_Witness ==
    /\ mode_and_paths_from_args(args) = "FromCli"
    /\ Len(filters) = 2
    /\ pc = "done"
    /\ resLog = <<<<"Ok", <<>>>>>>
    /\ status = <<0>>

\* C3: the Exit of an action that ran filters has status 0 iff all_errors is
\* empty, and status 1 with a report that holds, position by position, one
\* entry (path, config key, message) per error of all_errors, which are the
\* errors the runners returned, each once.
C3_ExitReflectsErrors ==
    EndedWithReport =>
        LET e == ret[2] IN
        /\ e.status \in {0, 1}
        /\ e.status = 0 <=> all_errors = <<>>
        /\ status = <<e.status>>
        /\ e.message = <<>>
        /\ all_errors = <<>> => e.error = <<>>
        /\ all_errors # <<>> =>
            /\ Len(e.error) = 1
            /\ Len(e.error[1].entries) = Len(all_errors)
            /\ \A n \in 1..Len(all_errors) :
                e.error[1].entries[n] =
                    <<"bullet", all_errors[n].path, all_errors[n].config_key,
                      all_errors[n].error>>
            /\ Cardinality(Range(e.error[1].entries)) = Len(all_errors)
        /\ Len(all_errors) = Cardinality(AllSlotErrors)

C3_Witness ==
    /\ EndedWithReport
    /\ Len(all_errors) = 3
    /\ ret[2].status = 1
    /\ Len(ret[2].error[1].entries) = 3

\* C4: when an entry of a filter has been handed to a worker, every entry of
\* every earlier filter is done, run_parallel has returned for that filter
\* and its errors are in all_errors.
C4_FiltersRunInSequence ==
    \A j \in 1..Len(st) : Started(j) =>
        \A i \in 1..(j - 1) :
            /\ \A k \in DOMAIN st[i] : st[i][k] = "done"
            /\ Len(batch) >= i
            /\ SlotErrors(i) \subseteq Range(all_errors)

C4_Witness ==
    /\ Len(st) = 2
    /\ Started(2)
    /\ pc = "parallel"
    /\ Cardinality(DOMAIN st[1]) = 2
    /\ Cardinality(SlotErrors(1)) = 2

\* C5: no entry is invoked twice; when run_parallel has returned for a filter
\* every entry of its map was invoked exactly once, whatever the runners
\* returned; an action that ends with a report has run every filter; only
\* the filter check and the resolver end an action otherwise.  With two
\* tidy filters, the first failing on one path and the second on none, the
\* second ran on every entry and the report is the first filter's error.
C5_ErrorsNeverAbort ==
    /\ \A i \in 1..Len(calls) : \A k \in DOMAIN calls[i] : calls[i][k] <= 1
    /\ \A i \in 1..Len(batch) : \A k \in DOMAIN calls[i] :
            calls[i][k] = 1 /\ st[i][k] = "done"
    /\ EndedWithReport => Len(batch) = Len(filters)
    /\ (pc = "done" /\ ~EndedWithReport /\ filters # <<>>) =>
            /\ resLog # <<>>
            /\ resLog[Len(resLog)][1] = "Err" \/ resLog[Len(resLog)] = <<"Ok", <<>>>>
    /\ (/\ EndedWithReport
        /\ action = "tidying"
        /\ Len(filters) = 2
        /\ Cardinality(SlotErrors(1)) = 1
        /\ SlotErrors(2) = {}) =>
            /\ \A k \in DOMAIN calls[2] : calls[2][k] = 1
            /\ \E p \in DOMAIN slot[1] :
                ret[2].error[1].entries = <<<<"bullet", p, <<"commands", 1>>, "execution error">>>>

C5_Witness ==
    /\ EndedWithReport
    /\ action = "tidying"
    /\ Len(filters) = 2
    /\ Cardinality(DOMAIN slot[1]) = 2
    /\ Cardinality(DOMAIN slot[2]) = 2
    /\ Cardinality(SlotErrors(1)) = 1
    /\ SlotErrors(2) = {}

\* C8: the set of errors an action ends with, and with it the status, is a
\* function of what the runners returned for the entries alone: it is the
\* same for every pool size, every order of the workers and every order of
\* the maps.
C8_ErrorSetIsDeterministic ==
    EndedWithReport =>
        /\ Range(all_errors) = AllSlotErrors
        /\ status = (IF AllSlotErrors = {} THEN <<0>> ELSE <<1>>)

C8_Witness ==
    /\ EndedWithReport
    /\ PoolSize > 1
    /\ Len(filters) = 2
    /\ Cardinality(AllSlotErrors) = 4

\* C9: what run_parallel returns for a filter holds exactly one error per
\* entry whose runner returned one: none lost, none twice, nothing else;
\* None when no runner returned an error.
C9_AggregationLosesNothing ==
    \A i \in 1..Len(batch) :
        IF SlotErrors(i) = {}
        THEN batch[i] = <<>>
        ELSE /\ Len(batch[i]) = 1
             /\ Range(batch[i][1]) = SlotErrors(i)
             /\ Len(batch[i][1]) = Cardinality(SlotErrors(i))

C9_Witness ==
    /\ Len(batch) >= 1
    /\ PoolSize > 1
    /\ Cardinality(SlotErrors(1)) = 2
    /\ Len(batch[1][1]) = 2


\* C6: once an entry of the first filter has been handed to a worker, the
\* action ends with the Exit of make_exit and never with a propagated
\* error or a panic.
C6_FatalOnlyBeforeFilters ==
    (pc = "done" /\ st # <<>> /\ Started(1)) => (Len(ret) = 2 /\ ret[1] = "Ok")

\* C7: within one action the resolver is asked for the paths exactly once:
\* BasePaths::paths is not called again for any filter.
C7_ResolvedOnce == Len(resLog) <= 1

\* C10: in GitStagedWithStash mode a successful stash is followed by exactly
\* one pop: never more pops than stashes, at most one stash not yet popped
\* and only inside a resolution, and a resolution that has returned has
\* popped what it stashed, whatever the staged diff returned.  No other
\* mode stashes.
C10_StashIsPoppedOnce ==
    /\ pops <= stashes
    /\ stashes <= pops + 1
    /\ spc = "idle" => pops = stashes
    /\ spc \in {"stashed", "diffed"} => stashes = pops + 1
    /\ smode # "GitStagedWithStash" => stashes = 0 /\ pops = 0

C10_Witness ==
    /\ smode = "GitStagedWithStash"
    /\ spc = "idle"
    /\ stashes = 2
    /\ pops = 2
    /\ resLog[1] = <<"Err", "vcs">>

\* How many results of the resolver satisfy P.
CountResults(P(_)) == Cardinality({n \in 1..Len(resLog) : P(resLog[n])})

\* C11: in GitStagedWithStash mode every result the resolver returns after
\* a stash, a failure of the staged diff included, is returned after a pop:
\* there are as many such results as pops, so that while the diff's result
\* is held it is not yet returned.  A pop that fails is returned as the pop's
\* own error, once per stash left on git's stack, and is neither the diff's
\* error nor a successful result.
C11_DiffFailureAfterPop ==
    smode = "GitStagedWithStash" =>
        /\ CountResults(LAMBDA r : r # <<"Err", "stash">>) = pops
        /\ CountResults(LAMBDA r : r = <<"Err", "pop">>)
               = Len(stashStack) - (IF spc = "idle" THEN 0 ELSE 1)

C11_Witness ==
    /\ smode = "GitStagedWithStash"
    /\ spc = "idle"
    /\ pops = 2
    /\ resLog = <<<<"Err", "vcs">>, <<"Err", "pop">>>>
    /\ Len(stashStack) = 1

\* The files of a resolution, and the map a builder returned for it.
ResolvedFiles(g) == UNION {Range(g[i].files) : i \in 1..Len(g)}
Resolved == IsOk(paths) /\ IsSome(paths[2])
Built(rm) == rm \in DOMAIN pmap /\ Resolved

\* C12: for a Root filter, when the resolution returned files the map has
\* exactly one entry, keyed ".", and its file list is the files of all the
\* groups in their order: every resolved file exactly once and no other.
\* When the resolution returned none there is no map and so no entry.
C12_RootIsOneEntry ==
    "Root" \in DOMAIN pmap =>
        /\ Resolved =>
            LET g == paths[2][1]
                m == pmap["Root"][2]
            IN /\ pmap["Root"][1] = "Ok"
               /\ DOMAIN m = {"."}
               /\ m["."].dir = "."
               /\ m["."].files = SelectSeq(TreeFileOrder, LAMBDA f : f \in ResolvedFiles(g))
               /\ Len(m["."].files) = Cardinality(ResolvedFiles(g))
        /\ paths = <<"Ok", <<>>>> => pmap["Root"][1] # "Ok"

C12_Witness ==
    /\ Built("Root")
    /\ Len(paths[2][1]) = 3
    /\ Len(pmap["Root"][2]["."].files) = 5

\* C13: for one resolution the files of all the entries of the Dirs map,
\* the keys of the Files map and the resolved files are the same set; the
\* Dirs map has one entry per group, keyed by the group's directory, that
\* is the group itself, so that no file is added, dropped or listed twice.
C13_PartitionLaw ==
    (Built("Dirs") /\ Built("Files")) =>
        LET g == paths[2][1]
            D == pmap["Dirs"][2]
            F == pmap["Files"][2]
        IN /\ pmap["Dirs"][1] = "Ok" /\ pmap["Files"][1] = "Ok"
           /\ UNION {Range(D[k].files) : k \in DOMAIN D} = DOMAIN F
           /\ DOMAIN F = ResolvedFiles(g)
           /\ DOMAIN D = {g[i].dir : i \in 1..Len(g)}
           /\ Cardinality(DOMAIN D) = Len(g)
           /\ \A i \in 1..Len(g) : D[g[i].dir] = g[i]
           /\ \A f \in ResolvedFiles(g) :
                Cardinality({k \in DOMAIN D : f \in Range(D[k].files)}) = 1

C13_Witness ==
    /\ Built("Dirs") /\ Built("Files")
    /\ Cardinality(DOMAIN pmap["Dirs"][2]) = 3
    /\ Cardinality(DOMAIN pmap["Files"][2]) = 6

\* C14: the Files map has exactly one entry per resolved file, and the
\* entry of a file is the whole group the file came from: the group's
\* directory and its file list unchanged, the file itself among them, and
\* no file of another group.
C14_FilesKeepSiblings ==
    Built("Files") =>
        LET g == paths[2][1]
            F == pmap["Files"][2]
        IN /\ pmap["Files"][1] = "Ok"
           /\ DOMAIN F = ResolvedFiles(g)
           /\ Cardinality(DOMAIN F) = Len(Concat([i \in 1..Len(g) |-> g[i].files]))
           /\ \A i \in 1..Len(g) : \A n \in 1..Len(g[i].files) :
                LET e == F[g[i].files[n]]
                IN /\ e.dir = g[i].dir
                   /\ e.files = g[i].files
                   /\ g[i].files[n] \in Range(e.files)
                   /\ \A x \in Range(e.files) : TreeDirOf(x) = g[i].dir

C14_Witness ==
    /\ Built("Files")
    /\ Len(paths[2][1]) = 2
    /\ "a.txt" \in DOMAIN pmap["Files"][2]
    /\ pmap["Files"][2]["a.txt"].files = <<"a.txt", "b.txt">>
    /\ "src/e.rs" \in DOMAIN pmap["Files"][2]

\* The entries for which the filter returned one of the outcomes os.
EntriesWith(os) == {k \in DOMAIN outcome : outcome[k] \in os}

\* C15: in a lint action an entry for which the filter returned not
\* applicable or ok contributes nothing; one for which it returned not ok
\* contributes exactly one ActionError "linting failed", one that met an
\* execution error exactly one ActionError with the error's message, each
\* with the entry's path and the filter's config key; the action ends with
\* one error per such entry.  With one Files filter on a.txt and b.txt,
\* a.txt passing and b.txt failing, the status is 1 and the report has
\* exactly one entry, for b.txt.
C15_LintContributions ==
    action = "linting" =>
        /\ \A k \in EntriesWith({"none", "na", "passed"}) : slot[1][k] = <<>>
        /\ \A k \in EntriesWith({"failed"}) :
            slot[1][k] = <<[error |-> "linting failed", config_key |-> <<"commands", 1>>,
                           path |-> k]>>
        /\ \A k \in EntriesWith({"err"}) :
            slot[1][k] = <<[error |-> "execution error", config_key |-> <<"commands", 1>>,
                           path |-> k]>>
        /\ pc = "done" =>
            /\ Len(all_errors) = Cardinality(EntriesWith({"failed", "err"}))
            /\ {all_errors[n].path : n \in 1..Len(all_errors)} = EntriesWith({"failed", "err"})
        /\ (/\ pc = "done"
            /\ filters[1].run_mode = "Files"
            /\ DOMAIN outcome = {"a.txt", "b.txt"}
            /\ outcome["a.txt"] = "passed"
            /\ outcome["b.txt"] = "failed") =>
                /\ status = <<1>>
                /\ ret[2].status = 1
                /\ ret[2].error[1].entries =
                       <<<<"bullet", "b.txt", <<"commands", 1>>, "linting failed">>>>

C15_Witness ==
    /\ action = "linting"
    /\ pc = "done"
    /\ filters[1].run_mode = "Files"
    /\ DOMAIN outcome = {"a.txt", "b.txt"}
    /\ outcome["a.txt"] = "passed"
    /\ outcome["b.txt"] = "failed"
    /\ status = <<1>>

\* C16: in a tidy action an entry yields nothing or exactly one
\* ActionError: nothing when the filter returned modified, unchanged or not
\* applicable, and for an execution failure one ActionError with the
\* entry's path and the filter's config key; the action ends with one
\* error per entry that failed.
C16_TidyContributions ==
    action = "tidying" =>
        /\ \A k \in DOMAIN outcome : Len(slot[1][k]) <= 1
        /\ \A k \in EntriesWith({"none", "tidied", "unchanged", "na"}) : slot[1][k] = <<>>
        /\ \A k \in EntriesWith({"err"}) :
            /\ Len(slot[1][k]) = 1
            /\ slot[1][k][1].path = k
            /\ slot[1][k][1].config_key = <<"commands", 1>>
            /\ slot[1][k][1].error = "execution error"
        /\ pc = "done" =>
            /\ Len(all_errors) = Cardinality(EntriesWith({"err"}))
            /\ {all_errors[n].path : n \in 1..Len(all_errors)} = EntriesWith({"err"})

C16_Witness ==
    /\ action = "tidying"
    /\ pc = "done"
    /\ filters[1].run_mode = "Files"
    /\ outcome = [k \in RunnerFiles |->
                      IF k = "a.txt" THEN "tidied" ELSE IF k = "b.txt" THEN "unchanged" ELSE "err"]
    /\ Len(all_errors) = 1
    /\ status = <<1>>

\* The entries a line was printed for.
PrintedFor == {l[3] : l \in printed}

\* C18: with quiet set no line is printed for any entry, whatever the
\* filter returned for it.
C18_QuietPrintsNothing == quiet => printed = {}

\* C18, amended: with quiet set no line is printed for an entry that was
\* tidied, unchanged, passed or not applicable; an entry whose lint failed
\* has its "Failed" line, with the tool's output, and an entry that met an
\* execution error its "error" line, and nothing else is printed.  The
\* report and the status are those of the errors, as without quiet.
C18_QuietKeepsFailures ==
    quiet =>
        /\ PrintedFor = EntriesWith({"failed", "err"})
        /\ \A k \in EntriesWith({"failed"}) :
            /\ <<"Failed", 1, k>> \in printed
            /\ \A l \in printed : l[3] = k => l[1] \in {"Failed", "stdout", "stderr"}
        /\ \A k \in EntriesWith({"err"}) :
            \A l \in printed : l[3] = k => l = <<"error", 1, k>>
        /\ pc = "done" =>
            /\ status = (IF EntriesWith({"failed", "err"}) = {} THEN <<0>> ELSE <<1>>)
            /\ Len(all_errors) = Cardinality(EntriesWith({"failed", "err"}))

C18_Witness ==
    /\ quiet
    /\ action = "linting"
    /\ pc = "done"
    /\ filters[1].run_mode = "Files"
    /\ outcome = [k \in RunnerFiles |->
                      IF k = "a.txt" THEN "passed" ELSE IF k = "b.txt" THEN "failed" ELSE "err"]
    /\ printed = {<<"Failed", 1, "b.txt">>, <<"stderr", 1, "b.txt">>, <<"error", 1, "lib/c.rs">>}

\* C17: the order of the report's entries is a function of the filters,
\* the resolved paths and what the filters returned: when every entry of a
\* filter is done, the errors run_parallel collects are in the same order
\* whichever way the map is iterated.
C17_ReportOrderIsDeterministic ==
    (pc = "parallel" /\ AllDone(st[fi])) =>
        \A o1, o2 \in Perms(DOMAIN map) :
            AppendErrors(all_errors, ParallelResult(Collect(o1, slot[fi])))
                = AppendErrors(all_errors, ParallelResult(Collect(o2, slot[fi])))

\* The action ended with a fatal error: new returned an error, or
\* run_subcommand did and run returned 1.
Fatal ==
    \/ pc = "failed" /\ ret[1] = "Err"
    \/ pc = "done" /\ Len(ret) = 2 /\ ret[1] = "Err" /\ status = <<1>>

\* C19: when a git-based mode is asked for and neither the current
\* directory nor an ancestor is a checkout root, the run ends with a fatal
\* error and no entry of a filter is invoked; and CannotFindRoot is
\* returned only when a git-based mode is asked for.
C19_MissingRootOnlyForGit ==
    /\ (mode_and_paths_from_args(args) \in GitModes /\ ~HasCheckout(cwd, vcsDirs)) =>
            /\ st = <<>>
            /\ pc \in {"failed", "done"} => Fatal
    /\ ret = <<"Err", "CannotFindRoot">> => mode_and_paths_from_args(args) \in GitModes

\* C19, amended: when a git-based mode is asked for and neither the
\* current directory nor an ancestor is a checkout root, the run ends with
\* a fatal error and no entry of a filter is invoked: CannotFindRoot from
\* new when the current directory has no precious.toml, else an error of
\* the action before its first filter.  CannotFindRoot does not depend on
\* the mode: new returns it exactly when the current directory has no
\* precious.toml and neither it nor an ancestor is a checkout root.
C19_NoCheckoutIsFatal ==
    /\ (mode_and_paths_from_args(args) \in GitModes /\ ~HasCheckout(cwd, vcsDirs)) =>
            /\ st = <<>>
            /\ calls = <<>>
            /\ pc \in {"construct", "new", "check_files", "failed", "done"}
            /\ pc \in {"failed", "done"} => Fatal
            /\ (pc = "failed" /\ cwd \notin cfgDirs) => ret = <<"Err", "CannotFindRoot">>
            /\ cwd \in cfgDirs => pc # "failed"
    /\ pc # "construct" =>
            (ret = <<"Err", "CannotFindRoot">>
                <=> (cwd \notin cfgDirs /\ ~\E d \in vcsDirs : Depth(d) <= Depth(cwd)))
    /\ ret = <<"Err", "CannotFindRoot">> => pc = "failed" /\ root = <<>>

C19_Witness ==
    /\ mode_and_paths_from_args(args) = "GitStaged"
    /\ vcsDirs = {}
    /\ cwd = ProjectDir
    /\ cfgDirs = {ProjectDir}
    /\ Len(filters) = 1
    /\ tree = AllFiles
    /\ pc = "done"
    /\ ret = <<"Err", "vcs">>
    /\ status = <<1>>
    /\ st = <<>>

\* C20: once set_root has run, the root is the current directory when it
\* holds a precious.toml, whatever checkout roots there are above it;
\* else it is the deepest directory among the current directory and its
\* ancestors that is a checkout root; and when there is none new has
\* returned CannotFindRoot and there is no root.
C20_RootPrefersConfigFile ==
    pc # "construct" =>
        LET above == {d \in vcsDirs : Depth(d) <= Depth(cwd)}
        IN IF cwd \in cfgDirs THEN root = <<cwd>> /\ pc # "failed"
           ELSE IF above # {}
           THEN /\ Len(root) = 1
                /\ root[1] \in above
                /\ \A d \in above : Depth(d) <= Depth(root[1])
           ELSE /\ root = <<>>
                /\ pc = "failed"
                /\ ret = <<"Err", "CannotFindRoot">>

C20_Witness ==
    /\ cwd = ProjectDir
    /\ cfgDirs = {ProjectDir}
    /\ vcsDirs = {"/", "/home"}
    /\ root = <<ProjectDir>>
    /\ pc = "new"

\* The candidate files below the directory d, and the files of a
\* resolution made in d, both as paths below the project's directory.
FilesBelow(d) == {f \in tree : Len(f) > Len(DirParts(d)) /\ SubSeq(f, 1, Len(DirParts(d))) = DirParts(d)}
ResolvedIn(d) ==
    IF paths[2] = <<>> THEN {}
    ELSE UNION {{DirParts(d) \o g.files[n] : n \in 1..Len(g.files)} : g \in Range(paths[2][1])}

\* C21: with the project root in the project's directory and the tool
\* started in its src, the --all resolution is one group with directory
\* "." whose files are the files of src named relative to src, in lexical
\* order; no file outside src is in it, and with no file in src it is None.
C21_ResolutionAnchoredAtCwd ==
    (pc = "resolved" /\ cwd = "/home/proj/src" /\ root = <<"/home/proj">>) =>
        LET here == SelectSeq(<< <<"bar.rs">>, <<"main.rs">> >>,
                              LAMBDA f : (<<"src">> \o f) \in tree)
        IN /\ paths = (IF here = <<>> THEN <<"Ok", <<>>>>
                       ELSE <<"Ok", << << [dir |-> <<>>, files |-> here] >> >> >>)
           /\ \A f \in ResolvedIn(cwd) : f[1] = "src"

C21_Witness ==
    /\ pc = "resolved"
    /\ cwd = "/home/proj/src"
    /\ root = <<"/home/proj">>
    /\ tree = Range(ProjFileOrder)
    /\ paths = <<"Ok", << << [dir |-> <<>>, files |-> << <<"bar.rs">>, <<"main.rs">> >>] >> >> >>

\* C22: with --all the resolved files are all the candidate files of the
\* project, whichever directory of the project the tool is started in.
C22_AllWalksProjectRoot ==
    pc = "resolved" => ResolvedIn(cwd) = tree

\* C22, amended: with --all the resolved files are the candidate files
\* below the current directory, which are all the candidate files of the
\* project when the tool is started in the project root; the resolution
\* is None exactly when there is no candidate file below the current
\* directory.
C22_AllWalksCwd ==
    pc = "resolved" =>
        /\ paths[1] = "Ok"
        /\ ResolvedIn(cwd) = FilesBelow(cwd)
        /\ cwd = "/home/proj" => ResolvedIn(cwd) = tree
        /\ paths[2] = <<>> <=> FilesBelow(cwd) = {}

C22_Witness ==
    /\ pc = "resolved"
    /\ cwd = "/home/proj/tests"
    /\ root = <<"/home/proj">>
    /\ tree = Range(ProjFileOrder)
    /\ ResolvedIn(cwd) = {<<"tests", "data", "bar.txt">>, <<"tests", "data", "foo.txt">>}
    /\ Len(paths[2][1]) = 1
    /\ paths[2][1][1].dir = <<"data">>

\* C23: at any instant the entries being run are no more than the size of
\* the pool, which is --jobs, or the number of processors when --jobs is
\* absent or 0; the pool is the one of the action for every filter, so the
\* entries being run are entries of the one filter run_parallel is at.
C23_PoolBound ==
    /\ Cardinality(Running) <= (IF jobs = 0 THEN NumCpus ELSE jobs)
    /\ \A ik \in Running : ik[1] = fi /\ pc = "parallel"

C23_Witness ==
    /\ jobs = 1
    /\ Len(st) = 2
    /\ fi = 2
    /\ Cardinality(Running) = 1
    /\ \E k \in DOMAIN st[2] : st[2][k] = "pending"

\* C24: when the main thread and the pool are scheduled fairly and every
\* tool that is invoked returns, an action that has started its first filter
\* ends with the Exit of make_exit after every entry of every filter was
\* invoked once; and as long as an invocation has not returned the action
\* has produced no result and no entry of a later filter has started.
C24_TerminatesWithExit ==
    /\ (st # <<>> /\ Started(1)) ~> (pc = "done")
    /\ []((pc = "done" /\ st # <<>> /\ Started(1)) =>
           (/\ EndedWithReport
            /\ Len(st) = Len(filters)
            /\ \A i \in 1..Len(st) : \A k \in DOMAIN st[i] : calls[i][k] = 1))
    /\ [](Running # {} =>
           (/\ pc = "parallel"
            /\ ret = <<>>
            /\ Len(st) = fi
            /\ \A ik \in Running : ik[1] = fi))

\* The Mode the order all, git, staged, paths gives for the arguments a.
FirstPresent(a) ==
    CHOOSE m \in {"All", "GitModified", "GitStaged", "FromCli"} :
        /\ m = "All" <=> "all" \in a
        /\ m = "GitModified" <=> ("git" \in a /\ "all" \notin a)
        /\ m = "GitStaged" <=> ("staged" \in a /\ {"all", "git"} \cap a = {})
        /\ m = "FromCli" <=> {"all", "git", "staged"} \cap a = {}

\* C25: the Mode is a function of the arguments with the precedence all,
\* git, staged, paths, the same at every call in one run (the one printed by
\* tidy or lint and the one the BasePaths is built with), and one of All,
\* GitModified, GitStaged and FromCli: --staged gives GitStaged, never
\* GitStagedWithStash, and nothing is stashed.
C25_ModeIsPure ==
    /\ \A l \in printed : l[2] = 0 => l[3] = FirstPresent(args)
    /\ IsSome(basepaths) =>
           /\ Unwrap(basepaths).mode = FirstPresent(args)
           /\ Unwrap(basepaths).mode # "GitStagedWithStash"
    /\ pc # "new" => \E l \in printed : l[2] = 0
    /\ stashes = 0

C25_Witness ==
    /\ args = {"all", "git", "staged"}
    /\ pc = "done"
    /\ Len(resLog) = 2
    /\ printed = {<<"Linting", 0, "All">>}
    /\ Unwrap(basepaths).mode = "All"

\* The files of the Root map's one entry that are in directory d, in the
\* entry's order: what the group of d held when the Root map was built.
RootFilesIn(d) ==
    SelectSeq(pmap["Root"][2]["."].files, LAMBDA f : TreeDirOf(f) = d)

FilterOf(ae) == ae.config_key[2]

\* C27: all_errors is the batches of the filters that have returned, one
\* after the other in the order in which the filters ran, so the errors of
\* one filter are next to one another and no error of a later filter comes
\* before an error of an earlier one; the report lists them in that order.
C27_BatchesInFilterOrder ==
    /\ all_errors =
           Concat([i \in 1..Len(batch) |-> IF IsSome(batch[i]) THEN Unwrap(batch[i]) ELSE <<>>])
    /\ \A m \in 1..Len(all_errors) : \A n \in 1..Len(all_errors) :
           m < n => FilterOf(all_errors[m]) <= FilterOf(all_errors[n])
    /\ \A i \in 1..Len(batch) : IsSome(batch[i]) =>
           \A n \in 1..Len(Unwrap(batch[i])) : FilterOf(Unwrap(batch[i])[n]) = i
    /\ (EndedWithReport /\ all_errors # <<>>) =>
           LET e == Unwrap(ret[2].error).entries
           IN /\ Len(e) = Len(all_errors)
              /\ \A n \in 1..Len(e) :
                    e[n] = <<"bullet", all_errors[n].path,
                             <<"commands", FilterOf(all_errors[n])>>, all_errors[n].error>>

C27_Witness ==
    /\ EndedWithReport
    /\ Len(batch) = 2
    /\ Len(all_errors) = 3
    /\ FilterOf(all_errors[1]) = 1
    /\ FilterOf(all_errors[2]) = 2
    /\ FilterOf(all_errors[3]) = 2
    /\ Len(Unwrap(ret[2].error).entries) = 3

\* C28: when the emptiness check of run_all_filters passed (the first
\* resolution returned groups), every resolution a map builder obtains
\* afterwards is present, so that its unwrap never panics.
C28_UnwrapNeverNone ==
    (Len(resLog) >= 1 /\ IsOk(resLog[1]) /\ resLog[1][2] # None) =>
        /\ ret # <<"panic">>
        /\ \A n \in 2..Len(resLog) : IsOk(resLog[n]) => resLog[n][2] # None

=========================================================================
